---------------------------- MODULE Spec2Model ----------------------------
(***************************************************************************)
(* Token-bucket rate limiter of package ratelimiter (RateLimiter,          *)
(* NewRateLimiter, refillTokens, Wait).                                    *)
(*                                                                         *)
(* The limiter is a buffered channel `tokens` of capacity maxTokens, a     *)
(* counter tokenCount guarded by the mutex mu, and one background          *)
(* goroutine refillTokens driven by a time.Ticker.  Every statement of     *)
(* Wait and of refillTokens that touches shared state is one step of the   *)
(* model, so every interleaving of the goroutines is explored.             *)
(***************************************************************************)
EXTENDS Integers, FiniteSets, Sequences

(* Bounds of the model. *)
MaxRate == 2
MaxNegRate == 3
MaxIvRate == 8
MaxConfigs == 2
MaxRows == 3
MaxCPU == 1
ChanCap == 2
NumCallers == 3
MaxCalls == 4
MaxTicks == 3

Callers == 1..NumCallers

VARIABLES
    maxTokens,   \* rl.maxTokens: the capacity, fixed by NewRateLimiter
    tokens,      \* number of values buffered in the channel rl.tokens
    tokenCount,  \* rl.tokenCount
    mu,          \* rl.mu: TRUE while the mutex is locked
    tickC,       \* number of ticks buffered in ticker.C (capacity 1)
    pcR,         \* position of the goroutine refillTokens
    pcW,         \* position of every caller in Wait
    returned,    \* history: Wait() calls that have returned
    refills,     \* history: tokens sent to the channel by refillTokens
    fired,       \* history: firings of the ticker's timer
    taken,       \* history: ticks received by refillTokens from ticker.C
    added,       \* history: tokens sent during the current loop iteration
    tickDemand,  \* history: the buffered tick fired while a caller was blocked
    curDemand,   \* history: the same mark, for the tick being processed
    wasted,      \* history: marked ticks whose iteration added no token
    counting,    \* TRUE when the tick histories (fired, taken, wasted) are kept
    rpsArg,      \* the argument of NewRateLimiter
    pcC,         \* position of the caller of NewRateLimiter in the constructor
    fillI,       \* iterations done of the constructor's fill loop
    started,     \* history: `go rl.refillTokens()` statements executed
    released,    \* history: the owner has stopped using the limiter
    ivRate,      \* refill interval: the rate given to NewRateLimiter
    ivInterval,  \* refill interval: rl.interval, in nanoseconds
    ivOffset,    \* refill interval: time from the window's start to its first tick
    ivTicks,     \* refill interval: ticks counted in the one-second window
    ivPc,        \* refill interval: position of the computation
    lim,         \* two limiters: the RateLimiter structs
    chanBuf,     \* two limiters: values buffered in each channel of the heap
    pw,          \* two limiters: position of every caller in Wait
    sesConfigs,  \* email: the configs given to SendEmailBulk
    sesI,        \* email: the index i of the loop of SendEmailBulk
    sesPc,       \* email: position in SendEmailBulk / SendEmail
    sesErrors,   \* email: the slice `errors`, as the indices it names
    sesLog,      \* email: history of the SendEmail calls that have returned
    sesResult,   \* email: what SendEmailBulk returned
    httpIn,      \* request: the arguments and what the network will answer
    httpPc,      \* request: position in MakeRequest
    httpRes,     \* request: the value *res of the caller
    httpDecoded, \* request: json.Unmarshal was applied to the response body
    httpErr,     \* request: what MakeRequest returned
    httpHeaders, \* request: the contents of the caller's headers map
    csvIn,       \* csv: the file given to ReadCSV and the number of CPUs
    csvPc,       \* csv: position of the caller in ReadCSV
    rowChan,     \* csv: rows buffered in rowChan
    rowClosed,   \* csv: close(rowChan) statements executed
    resultChan,  \* csv: results buffered in resultChan
    resClosed,   \* csv: close(resultChan) statements executed
    wg,          \* csv: the counter of the WaitGroup
    rdNext,      \* csv: data rows read by the reader goroutine
    rdPc,        \* csv: position of the reader goroutine
    wkPc,        \* csv: position of every worker
    wkRow,       \* csv: the result every worker is about to send
    clPc,        \* csv: position of the goroutine that closes resultChan
    csvResults,  \* csv: the slice `results`, as the rows of its records
    csvErrors,   \* csv: len(errors)
    csvRet,      \* csv: the error ReadCSV returned
    csvProcessed,\* csv: history: processRow calls made for every row
    csvPanic,    \* csv: a goroutine has panicked
    csvExited,   \* csv: the runtime has ended the process after a panic
    fileClosed   \* csv: the deferred file.Close() has run

vars == <<maxTokens, tokens, tokenCount, mu, tickC, pcR, pcW, returned,
          refills, fired, taken, added, tickDemand, curDemand, wasted,
          counting, rpsArg, pcC, fillI, started, released,
          ivRate, ivInterval, ivOffset, ivTicks, ivPc, lim, chanBuf, pw,
          sesConfigs, sesI, sesPc, sesErrors, sesLog, sesResult,
          httpIn, httpPc, httpRes, httpDecoded, httpErr, httpHeaders,
          csvIn, csvPc, rowChan, rowClosed, resultChan, resClosed, wg,
          rdNext, rdPc, wkPc, wkRow, clPc, csvResults, csvErrors, csvRet,
          csvProcessed, csvPanic, csvExited, fileClosed>>

(* What the steps of Wait and of refillTokens leave alone. *)
ivVars == <<ivRate, ivInterval, ivOffset, ivTicks, ivPc>>

(* The limiter of the main model: its fields, goroutines and histories. *)
limiterVars == <<maxTokens, tokens, tokenCount, mu, tickC, pcR, pcW, returned,
                 refills, fired, taken, added, tickDemand, curDemand, wasted,
                 counting, rpsArg, pcC, fillI, started, released>>

pairVars == <<lim, chanBuf, pw>>

(* What is modelled apart from the limiter of the main model, and apart
   from the refill interval, and apart from the pair of limiters. *)
sesVars == <<sesConfigs, sesI, sesPc, sesErrors, sesLog, sesResult>>

httpVars == <<httpIn, httpPc, httpRes, httpDecoded, httpErr, httpHeaders>>

csvVars == <<csvIn, csvPc, rowChan, rowClosed, resultChan, resClosed, wg,
             rdNext, rdPc, wkPc, wkRow, clPc, csvResults, csvErrors, csvRet,
             csvProcessed, csvPanic, csvExited, fileClosed>>

others == <<ivVars, pairVars, sesVars, httpVars, csvVars>>
notIv == <<limiterVars, pairVars, sesVars, httpVars, csvVars>>
notPair == <<limiterVars, ivVars, sesVars, httpVars, csvVars>>
notSes == <<limiterVars, ivVars, pairVars, httpVars, csvVars>>
notHttp == <<limiterVars, ivVars, pairVars, sesVars, csvVars>>
notCsv == <<limiterVars, ivVars, pairVars, sesVars, httpVars>>

aux == <<rpsArg, pcC, fillI, started, released, others>>

hist == <<returned, refills, fired, taken, added, tickDemand, curDemand,
          wasted, counting>>

---------------------------------------------------------------------------
(* The statements of the source, as operators. *)

(* for range maxTokens { rl.tokens <- struct{}{} }: tokens put by the
   constructor. *)
InitTokensShort(rps) == rps - 1
InitTokensOver(rps) == rps + 1
InitTokens(rps) == rps

(* time.Second, in nanoseconds (the unit of time.Duration). *)
Second == 1000000000

(* interval: time.Second / time.Duration(rps), an integer division. *)
Interval(rps) == Second \div rps

(* time.NewTicker(d) panics unless d > 0. *)
TickerOk(d) == d > 0

(* if rl.tokenCount < rl.maxTokens *)
RefillGuardOffByOne(tc, max) == tc <= max
RefillGuard(tc, max) == tc < max

(* select { case rl.tokens <- struct{}{}: ... default: }: the send case is
   taken when the buffer has room, the default case otherwise. *)
ChanSendOk(len, cap) == len < cap

(* rl.tokens <- struct{}{} : one more value in the buffer. *)
ChanAfterSendLost(len) == len
ChanAfterSend(len) == len + 1

(* <-rl.tokens : enabled when the buffer is not empty; one value fewer. *)
ChanRecvOk(len) == len > 0
ChanAfterRecv(len) == len - 1

(* rl.tokenCount++ and rl.tokenCount-- *)
IncSkipped(tc) == tc
Inc(tc) == tc + 1
DecSkipped(tc) == tc
Dec(tc) == tc - 1

(* rl.mu.Lock(): returns when the mutex is free, and holds it. *)
MutexLockNoWait(m) == TRUE
MutexLockOk(m) == m = FALSE

(* rl.mu.Unlock(): the mutex is free afterwards. *)
MutexUnlockMissing(m) == m
MutexUnlock(m) == FALSE

(* Where Wait goes after rl.tokenCount-- : to rl.mu.Unlock(). *)
PcAfterDecReturn == "idle"
PcAfterDec == "unlock"

(* Where refillTokens goes after rl.tokenCount++ : to rl.mu.Unlock(). *)
PcAfterIncAgain == "check"
PcAfterInc == "unlock"

(* Where refillTokens goes after rl.mu.Unlock(): back to `range ticker.C`. *)
PcAfterRefillUnlockBusy == "lock"
PcAfterRefillUnlock == "tick"

(* Callers that hold a token received from the channel and have not yet
   returned from Wait. *)
InFlight == {p \in Callers : pcW[p] \in {"lock", "dec", "unlock"}}
AtRecv == {p \in Callers : pcW[p] = "recv"}

(* Callers between rl.mu.Lock() and rl.mu.Unlock() in Wait, and the
   positions of refillTokens between its Lock() and Unlock(). *)
CallersInCS == {p \in Callers : pcW[p] \in {"dec", "unlock"}}
RefillCS == {"check", "send", "inc", "unlock"}

(* Wait() calls that received a token, and Wait() calls issued. *)
ReceivedCount == returned + Cardinality(InFlight)
IssuedCount == ReceivedCount + Cardinality(AtRecv)

(* A caller is blocked in Wait on an empty bucket. *)
Demand == tokens = 0 /\ AtRecv # {}

Count(c) == IF counting THEN c + 1 ELSE c

---------------------------------------------------------------------------
(* The computations modelled apart from the limiter, not in use. *)
IvIdle ==
    /\ ivRate = 1
    /\ ivInterval = 0
    /\ ivOffset = 0
    /\ ivTicks = 0
    /\ ivPc = "idle"

PairIdle ==
    /\ lim = <<>>
    /\ chanBuf = <<>>
    /\ pw = <<>>

SesIdle ==
    /\ sesConfigs = <<>>
    /\ sesI = 0
    /\ sesPc = "idle"
    /\ sesErrors = <<>>
    /\ sesLog = <<>>
    /\ sesResult = "none"

HttpIdle ==
    /\ httpIn = <<>>
    /\ httpPc = "idle"
    /\ httpRes = "zero"
    /\ httpDecoded = FALSE
    /\ httpErr = "none"
    /\ httpHeaders = {}

CsvIdle ==
    /\ csvIn = <<>>
    /\ csvPc = "idle"
    /\ rowChan = <<>>
    /\ rowClosed = 0
    /\ resultChan = <<>>
    /\ resClosed = 0
    /\ wg = 0
    /\ rdNext = 0
    /\ rdPc = "none"
    /\ wkPc = <<>>
    /\ wkRow = <<>>
    /\ clPc = "none"
    /\ csvResults = <<>>
    /\ csvErrors = 0
    /\ csvRet = "none"
    /\ csvProcessed = <<>>
    /\ csvPanic = FALSE
    /\ csvExited = FALSE
    /\ fileClosed = FALSE

OthersIdle == IvIdle /\ PairIdle /\ SesIdle /\ HttpIdle /\ CsvIdle

(* NewRateLimiter(rps) with rps > 0: the state when the constructor returns,
   the goroutine refillTokens started and waiting for its first tick. *)
InitState ==
    /\ maxTokens \in 1..MaxRate
    /\ tokens = InitTokens(maxTokens)
    /\ tokenCount = maxTokens
    /\ mu = FALSE
    /\ tickC = 0
    /\ pcR = "tick"
    /\ pcW = [p \in Callers |-> "idle"]
    /\ returned = 0
    /\ refills = 0
    /\ fired = 0
    /\ taken = 0
    /\ added = 0
    /\ tickDemand = FALSE
    /\ curDemand = FALSE
    /\ wasted = 0
    /\ rpsArg = maxTokens
    /\ pcC = "done"
    /\ fillI = maxTokens
    /\ started = 1
    /\ released = FALSE
    /\ OthersIdle

Init == InitState /\ counting = TRUE

InitLive == InitState /\ counting = FALSE

---------------------------------------------------------------------------
(* The ticker.  Its timer fires every rl.interval and sends on ticker.C,
   a channel of capacity 1; a tick that finds the buffer full is dropped. *)
TimerFire ==
    /\ pcR \notin {"none", "start"}
    /\ counting => fired < MaxTicks
    /\ fired' = Count(fired)
    /\ IF tickC = 0
         THEN tickC' = 1 /\ tickDemand' = Demand
         ELSE UNCHANGED <<tickC, tickDemand>>
    /\ UNCHANGED <<maxTokens, tokens, tokenCount, mu, pcR, pcW, returned,
                   refills, taken, added, curDemand, wasted, counting>>
    /\ UNCHANGED aux

(* refillTokens: for range ticker.C *)
RefillTick ==
    /\ pcR = "tick"
    /\ tickC = 1
    /\ tickC' = 0
    /\ pcR' = "lock"
    /\ taken' = Count(taken)
    /\ added' = 0
    /\ curDemand' = tickDemand
    /\ UNCHANGED <<maxTokens, tokens, tokenCount, mu, pcW, returned, refills,
                   fired, tickDemand, wasted, counting>>
    /\ UNCHANGED aux

(* refillTokens: rl.mu.Lock() *)
RefillLock ==
    /\ pcR = "lock"
    /\ MutexLockOk(mu)
    /\ mu' = TRUE
    /\ pcR' = "check"
    /\ UNCHANGED <<maxTokens, tokens, tokenCount, tickC, pcW>>
    /\ UNCHANGED hist
    /\ UNCHANGED aux

(* refillTokens: if rl.tokenCount < rl.maxTokens *)
RefillCheck ==
    /\ pcR = "check"
    /\ pcR' = IF RefillGuard(tokenCount, maxTokens) THEN "send" ELSE "unlock"
    /\ UNCHANGED <<maxTokens, tokens, tokenCount, mu, tickC, pcW>>
    /\ UNCHANGED hist
    /\ UNCHANGED aux

(* refillTokens: select { case rl.tokens <- struct{}{}: ... default: } *)
RefillSend ==
    /\ pcR = "send"
    /\ IF ChanSendOk(tokens, maxTokens)
         THEN /\ tokens' = ChanAfterSend(tokens)
              /\ refills' = refills + 1
              /\ added' = added + 1
              /\ pcR' = "inc"
         ELSE /\ pcR' = "unlock"
              /\ UNCHANGED <<tokens, refills, added>>
    /\ UNCHANGED <<maxTokens, tokenCount, mu, tickC, pcW, returned, fired,
                   taken, tickDemand, curDemand, wasted, counting>>
    /\ UNCHANGED aux

(* refillTokens: rl.tokenCount++ *)
RefillInc ==
    /\ pcR = "inc"
    /\ tokenCount' = Inc(tokenCount)
    /\ pcR' = PcAfterInc
    /\ UNCHANGED <<maxTokens, tokens, mu, tickC, pcW>>
    /\ UNCHANGED hist
    /\ UNCHANGED aux

(* refillTokens: rl.mu.Unlock(), end of the loop body *)
RefillUnlock ==
    /\ pcR = "unlock"
    /\ mu' = MutexUnlock(mu)
    /\ pcR' = PcAfterRefillUnlock
    /\ wasted' = IF curDemand /\ added = 0 THEN Count(wasted) ELSE wasted
    /\ UNCHANGED <<maxTokens, tokens, tokenCount, tickC, pcW, returned,
                   refills, fired, taken, added, tickDemand, curDemand,
                   counting>>
    /\ UNCHANGED aux

---------------------------------------------------------------------------
(* A caller invokes rl.Wait(). *)
WaitCall(p) ==
    /\ pcC = "done"
    /\ ~released
    /\ pcW[p] = "idle"
    /\ IssuedCount < MaxCalls
    /\ pcW' = [pcW EXCEPT ![p] = "recv"]
    /\ UNCHANGED <<maxTokens, tokens, tokenCount, mu, tickC, pcR>>
    /\ UNCHANGED hist
    /\ UNCHANGED aux

(* Wait: <-rl.tokens *)
WaitRecv(p) ==
    /\ pcW[p] = "recv"
    /\ ChanRecvOk(tokens)
    /\ tokens' = ChanAfterRecv(tokens)
    /\ pcW' = [pcW EXCEPT ![p] = "lock"]
    /\ UNCHANGED <<maxTokens, tokenCount, mu, tickC, pcR>>
    /\ UNCHANGED hist
    /\ UNCHANGED aux

(* Wait: rl.mu.Lock() *)
WaitLock(p) ==
    /\ pcW[p] = "lock"
    /\ MutexLockOk(mu)
    /\ mu' = TRUE
    /\ pcW' = [pcW EXCEPT ![p] = "dec"]
    /\ UNCHANGED <<maxTokens, tokens, tokenCount, tickC, pcR>>
    /\ UNCHANGED hist
    /\ UNCHANGED aux

(* Wait: rl.tokenCount-- *)
WaitDec(p) ==
    /\ pcW[p] = "dec"
    /\ tokenCount' = Dec(tokenCount)
    /\ pcW' = [pcW EXCEPT ![p] = PcAfterDec]
    /\ UNCHANGED <<maxTokens, tokens, mu, tickC, pcR>>
    /\ UNCHANGED hist
    /\ UNCHANGED aux

(* Wait: rl.mu.Unlock() and return *)
WaitUnlock(p) ==
    /\ pcW[p] = "unlock"
    /\ mu' = MutexUnlock(mu)
    /\ pcW' = [pcW EXCEPT ![p] = "idle"]
    /\ returned' = returned + 1
    /\ UNCHANGED <<maxTokens, tokens, tokenCount, tickC, pcR, refills, fired,
                   taken, added, tickDemand, curDemand, wasted, counting>>
    /\ UNCHANGED aux

(* The owner stops using the limiter: it issues no further Wait() and drops
   its reference.  RateLimiter has no Stop or Close method, so this is all
   an owner can do to end a limiter. *)
Release ==
    /\ pcC = "done"
    /\ ~released
    /\ released' = TRUE
    /\ UNCHANGED <<maxTokens, tokens, tokenCount, mu, tickC, pcR, pcW>>
    /\ UNCHANGED hist
    /\ UNCHANGED <<rpsArg, pcC, fillI, started>>
    /\ UNCHANGED others

Call == \E p \in Callers : WaitCall(p)
Recv == \E p \in Callers : WaitRecv(p)
Lock == \E p \in Callers : WaitLock(p)
Decrement == \E p \in Callers : WaitDec(p)
Unlock == \E p \in Callers : WaitUnlock(p)

Next ==
    \/ TimerFire
    \/ RefillTick
    \/ RefillLock
    \/ RefillCheck
    \/ RefillSend
    \/ RefillInc
    \/ RefillUnlock
    \/ Call
    \/ Recv
    \/ Lock
    \/ Decrement
    \/ Unlock
    \/ Release

Spec == Init /\ [][Next]_vars

---------------------------------------------------------------------------
(* NewRateLimiter(rps), statement by statement, from its call on. *)

(* make(chan struct{}, maxTokens) panics for a negative size, and
   time.Second / time.Duration(rps) panics for rps = 0. *)
MakeChanOk(size) == size >= 0
DivisorOk(d) == d # 0

CtorRates == (0 - MaxNegRate)..MaxRate

(* No limiter has been built. *)
Unbuilt ==
    /\ fillI = 0
    /\ started = 0
    /\ released = FALSE
    /\ maxTokens = 0
    /\ tokens = 0
    /\ tokenCount = 0
    /\ mu = FALSE
    /\ tickC = 0
    /\ pcR = "none"
    /\ pcW = [p \in Callers |-> "idle"]
    /\ returned = 0
    /\ refills = 0
    /\ fired = 0
    /\ taken = 0
    /\ added = 0
    /\ tickDemand = FALSE
    /\ curDemand = FALSE
    /\ wasted = 0
    /\ counting = TRUE

LimiterIdle ==
    /\ rpsArg = 0
    /\ pcC = "none"
    /\ Unbuilt

CtorInit ==
    /\ rpsArg \in CtorRates
    /\ pcC = "alloc"
    /\ Unbuilt
    /\ OthersIdle

(* maxTokens := rps; rl := &RateLimiter{tokens: make(...), interval: ...,
   maxTokens: maxTokens, tokenCount: maxTokens} *)
NewAlloc ==
    /\ pcC = "alloc"
    /\ IF MakeChanOk(rpsArg) /\ DivisorOk(rpsArg)
         THEN /\ maxTokens' = rpsArg
              /\ tokenCount' = rpsArg
              /\ tokens' = 0
              /\ pcC' = "fill"
         ELSE /\ pcC' = "panic"
              /\ UNCHANGED <<maxTokens, tokenCount, tokens>>
    /\ UNCHANGED <<mu, tickC, pcR, pcW, rpsArg, fillI, started, released>>
    /\ UNCHANGED hist
    /\ UNCHANGED others

(* for range maxTokens { rl.tokens <- struct{}{} } *)
NewFill ==
    /\ pcC = "fill"
    /\ IF fillI < InitTokens(maxTokens)
         THEN /\ ChanSendOk(tokens, maxTokens)
              /\ tokens' = ChanAfterSend(tokens)
              /\ fillI' = fillI + 1
              /\ pcC' = pcC
         ELSE /\ pcC' = "go"
              /\ UNCHANGED <<tokens, fillI>>
    /\ UNCHANGED <<maxTokens, tokenCount, mu, tickC, pcR, pcW, rpsArg,
                   started, released>>
    /\ UNCHANGED hist
    /\ UNCHANGED others

(* go rl.refillTokens() *)
NewGo ==
    /\ pcC = "go"
    /\ pcC' = "return"
    /\ pcR' = "start"
    /\ started' = started + 1
    /\ UNCHANGED <<maxTokens, tokens, tokenCount, mu, tickC, pcW, rpsArg,
                   fillI, released>>
    /\ UNCHANGED hist
    /\ UNCHANGED others

(* return rl *)
NewReturn ==
    /\ pcC = "return"
    /\ pcC' = "done"
    /\ UNCHANGED <<maxTokens, tokens, tokenCount, mu, tickC, pcR, pcW,
                   rpsArg, fillI, started, released>>
    /\ UNCHANGED hist
    /\ UNCHANGED others

(* refillTokens: ticker := time.NewTicker(rl.interval) *)
RefillStart ==
    /\ pcR = "start"
    /\ pcR' = IF TickerOk(Interval(maxTokens)) THEN "tick" ELSE "panic"
    /\ UNCHANGED <<maxTokens, tokens, tokenCount, mu, tickC, pcW>>
    /\ UNCHANGED hist
    /\ UNCHANGED aux

CtorNext ==
    \/ NewAlloc
    \/ NewFill
    \/ NewGo
    \/ NewReturn
    \/ RefillStart
    \/ Next

CtorSpec == CtorInit /\ [][CtorNext]_vars

---------------------------------------------------------------------------
(* The refill interval and the ticks it gives.  NewRateLimiter computes
   rl.interval, refillTokens makes a ticker of that period, and the ticks
   that fall in a window of one second, closed at its start and open at its
   end, are counted; the window starts ivOffset before one of the ticks. *)
IvRates == (1..MaxIvRate) \cup {Second + 1}

WindowOffsets(d) == {0, 1, d - 1} \cap (0..(d - 1))

IvInit ==
    /\ ivRate \in IvRates
    /\ ivInterval = 0
    /\ ivOffset = 0
    /\ ivTicks = 0
    /\ ivPc = "new"
    /\ LimiterIdle
    /\ PairIdle
    /\ SesIdle
    /\ HttpIdle
    /\ CsvIdle

(* interval: time.Second / time.Duration(rps) *)
IvCompute ==
    /\ ivPc = "new"
    /\ ivInterval' = Interval(ivRate)
    /\ ivPc' = "ticker"
    /\ UNCHANGED <<ivRate, ivOffset, ivTicks>>
    /\ UNCHANGED notIv

(* ticker := time.NewTicker(rl.interval) *)
IvTicker ==
    /\ ivPc = "ticker"
    /\ ivPc' = IF TickerOk(ivInterval) THEN "window" ELSE "panic"
    /\ UNCHANGED <<ivRate, ivInterval, ivOffset, ivTicks>>
    /\ UNCHANGED notIv

(* An observer picks a one-second window. *)
IvWindow ==
    /\ ivPc = "window"
    /\ ivOffset' \in WindowOffsets(ivInterval)
    /\ ivPc' = "count"
    /\ UNCHANGED <<ivRate, ivInterval, ivTicks>>
    /\ UNCHANGED notIv

(* for range ticker.C: the next tick, when it falls inside the window. *)
IvTick ==
    /\ ivPc = "count"
    /\ ivOffset + ivTicks * ivInterval < Second
    /\ ivTicks' = ivTicks + 1
    /\ UNCHANGED <<ivRate, ivInterval, ivOffset, ivPc>>
    /\ UNCHANGED notIv

IvNext ==
    \/ IvCompute
    \/ IvTicker
    \/ IvWindow
    \/ IvTick

IntervalSpec == IvInit /\ [][IvNext]_vars

---------------------------------------------------------------------------
(* Two limiters built with the same rate, rl1 := NewRateLimiter(rps) and
   rl2 := NewRateLimiter(rps), from the state in which both constructors
   have returned.  Each call allocates its own struct (with its own mutex
   and counter), its own channel and its own ticker; caller p uses the
   limiter LimOf(p).  Every statement of Wait and of refillTokens is a step,
   as in the main model. *)
Lims == {1, 2}

(* make(chan struct{}, maxTokens) in the i-th call: a new channel. *)
NewChanShared(i) == 1
NewChan(i) == i

LimOf(p) == IF p % 2 = 1 THEN 1 ELSE 2

(* The number of values buffered in rl.tokens of limiter i. *)
Bucket(i) == chanBuf[lim[i].ch]

PairInit ==
    /\ \E n \in 1..MaxRate :
          /\ lim = [i \in Lims |->
                      [ch |-> NewChan(i), maxTokens |-> n, tokenCount |-> n,
                       mu |-> FALSE, tickC |-> 0, pcR |-> "tick",
                       held |-> n]]
          /\ chanBuf = [c \in Lims |->
                          IF \E i \in Lims : NewChan(i) = c
                            THEN InitTokens(n) ELSE 0]
    /\ pw = [p \in Callers |-> "idle"]
    /\ LimiterIdle
    /\ IvIdle
    /\ SesIdle
    /\ HttpIdle
    /\ CsvIdle

PTimerFire(i) ==
    /\ lim[i].tickC = 0
    /\ lim' = [lim EXCEPT ![i].tickC = 1]
    /\ UNCHANGED <<chanBuf, pw>>
    /\ UNCHANGED notPair

PRefillTick(i) ==
    /\ lim[i].pcR = "tick"
    /\ lim[i].tickC = 1
    /\ lim' = [lim EXCEPT ![i].tickC = 0, ![i].pcR = "lock"]
    /\ UNCHANGED <<chanBuf, pw>>
    /\ UNCHANGED notPair

PRefillLock(i) ==
    /\ lim[i].pcR = "lock"
    /\ MutexLockOk(lim[i].mu)
    /\ lim' = [lim EXCEPT ![i].mu = TRUE, ![i].pcR = "check"]
    /\ UNCHANGED <<chanBuf, pw>>
    /\ UNCHANGED notPair

PRefillCheck(i) ==
    /\ lim[i].pcR = "check"
    /\ lim' = [lim EXCEPT ![i].pcR =
                 IF RefillGuard(lim[i].tokenCount, lim[i].maxTokens)
                   THEN "send" ELSE "unlock"]
    /\ UNCHANGED <<chanBuf, pw>>
    /\ UNCHANGED notPair

PRefillSend(i) ==
    /\ lim[i].pcR = "send"
    /\ IF ChanSendOk(Bucket(i), lim[i].maxTokens)
         THEN /\ chanBuf' = [chanBuf EXCEPT
                               ![lim[i].ch] = ChanAfterSend(Bucket(i))]
              /\ lim' = [lim EXCEPT ![i].pcR = "inc",
                                    ![i].held = lim[i].held + 1]
         ELSE /\ lim' = [lim EXCEPT ![i].pcR = "unlock"]
              /\ UNCHANGED chanBuf
    /\ UNCHANGED pw
    /\ UNCHANGED notPair

PRefillInc(i) ==
    /\ lim[i].pcR = "inc"
    /\ lim' = [lim EXCEPT ![i].tokenCount = Inc(lim[i].tokenCount),
                          ![i].pcR = PcAfterInc]
    /\ UNCHANGED <<chanBuf, pw>>
    /\ UNCHANGED notPair

PRefillUnlock(i) ==
    /\ lim[i].pcR = "unlock"
    /\ lim' = [lim EXCEPT ![i].mu = MutexUnlock(lim[i].mu),
                          ![i].pcR = PcAfterRefillUnlock]
    /\ UNCHANGED <<chanBuf, pw>>
    /\ UNCHANGED notPair

PWaitCall(p) ==
    /\ pw[p] = "idle"
    /\ pw' = [pw EXCEPT ![p] = "recv"]
    /\ UNCHANGED <<lim, chanBuf>>
    /\ UNCHANGED notPair

PWaitRecv(p) ==
    /\ pw[p] = "recv"
    /\ ChanRecvOk(Bucket(LimOf(p)))
    /\ chanBuf' = [chanBuf EXCEPT
                     ![lim[LimOf(p)].ch] = ChanAfterRecv(Bucket(LimOf(p)))]
    /\ lim' = [lim EXCEPT ![LimOf(p)].held = lim[LimOf(p)].held - 1]
    /\ pw' = [pw EXCEPT ![p] = "lock"]
    /\ UNCHANGED notPair

PWaitLock(p) ==
    /\ pw[p] = "lock"
    /\ MutexLockOk(lim[LimOf(p)].mu)
    /\ lim' = [lim EXCEPT ![LimOf(p)].mu = TRUE]
    /\ pw' = [pw EXCEPT ![p] = "dec"]
    /\ UNCHANGED chanBuf
    /\ UNCHANGED notPair

PWaitDec(p) ==
    /\ pw[p] = "dec"
    /\ lim' = [lim EXCEPT
                 ![LimOf(p)].tokenCount = Dec(lim[LimOf(p)].tokenCount)]
    /\ pw' = [pw EXCEPT ![p] = PcAfterDec]
    /\ UNCHANGED chanBuf
    /\ UNCHANGED notPair

PWaitUnlock(p) ==
    /\ pw[p] = "unlock"
    /\ lim' = [lim EXCEPT ![LimOf(p)].mu = MutexUnlock(lim[LimOf(p)].mu)]
    /\ pw' = [pw EXCEPT ![p] = "idle"]
    /\ UNCHANGED chanBuf
    /\ UNCHANGED notPair

PairTimer == \E i \in Lims : PTimerFire(i)
PairTick == \E i \in Lims : PRefillTick(i)
PairRefillLock == \E i \in Lims : PRefillLock(i)
PairCheck == \E i \in Lims : PRefillCheck(i)
PairSend == \E i \in Lims : PRefillSend(i)
PairInc == \E i \in Lims : PRefillInc(i)
PairRefillUnlock == \E i \in Lims : PRefillUnlock(i)
PairCall == \E p \in Callers : PWaitCall(p)
PairRecv == \E p \in Callers : PWaitRecv(p)
PairLock == \E p \in Callers : PWaitLock(p)
PairDec == \E p \in Callers : PWaitDec(p)
PairUnlock == \E p \in Callers : PWaitUnlock(p)

PairNext ==
    \/ PairTimer
    \/ PairTick
    \/ PairRefillLock
    \/ PairCheck
    \/ PairSend
    \/ PairInc
    \/ PairRefillUnlock
    \/ PairCall
    \/ PairRecv
    \/ PairLock
    \/ PairDec
    \/ PairUnlock

PairSpec == PairInit /\ [][PairNext]_vars

---------------------------------------------------------------------------
(* Package ses: SendEmailBulk(configs) and the SendEmail calls it makes.
   Of a config the model keeps what SendEmail tests: the number of
   recipients and the lengths of Sender, Subject, HTMLBody and TextBody
   (0: empty).  The answer of the service, c.svc.SendEmail, is chosen when
   it is called. *)
Lens == {0, 1}

EmailConfigs ==
    [rcpts : Lens, sender : Lens, subject : Lens, html : Lens, text : Lens]

(* if config.HTMLBody == "" && config.TextBody == "" *)
BodyMissingUnchecked(h, t) == FALSE
BodyMissing(h, t) == h = 0 /\ t = 0

(* The validation of SendEmail, in the order of its tests: the error it
   returns, or "none". *)
ValidationError(cfg) ==
    IF cfg.rcpts = 0 THEN "no recipients specified"
    ELSE IF cfg.sender = 0 THEN "sender email is required"
    ELSE IF cfg.subject = 0 THEN "subject is required"
    ELSE IF BodyMissing(cfg.html, cfg.text)
           THEN "either HTML body or text body is required"
    ELSE "none"

(* for i, config := range configs: the index after the one just handled,
   also when its SendEmail returned an error. *)
IndexAfterErrorBreak(i, n) == n
IndexAfterError(i, n) == i + 1

SesInit ==
    /\ \E n \in 0..MaxConfigs : sesConfigs \in [1..n -> EmailConfigs]
    /\ sesI = 0
    /\ sesPc = "loop"
    /\ sesErrors = <<>>
    /\ sesLog = <<>>
    /\ sesResult = "none"
    /\ LimiterIdle
    /\ IvIdle
    /\ PairIdle
    /\ HttpIdle
    /\ CsvIdle

(* SendEmailBulk calls c.SendEmail(configs[i]); SendEmail validates the
   config and returns an error, or goes on to call the service. *)
SesValidate ==
    /\ sesPc = "loop"
    /\ sesI < Len(sesConfigs)
    /\ LET err == ValidationError(sesConfigs[sesI + 1]) IN
         IF err # "none"
           THEN /\ sesErrors' = Append(sesErrors, sesI)
                /\ sesLog' = Append(sesLog,
                                [idx |-> sesI, called |-> FALSE, res |-> err])
                /\ sesI' = IndexAfterError(sesI, Len(sesConfigs))
                /\ sesPc' = "loop"
           ELSE /\ sesPc' = "svc"
                /\ UNCHANGED <<sesErrors, sesLog, sesI>>
    /\ UNCHANGED <<sesConfigs, sesResult>>
    /\ UNCHANGED notSes

(* SendEmail: result, err := c.svc.SendEmail(input), and the return to the
   loop of SendEmailBulk. *)
SesService ==
    /\ sesPc = "svc"
    /\ \E ok \in BOOLEAN :
         IF ok
           THEN /\ sesLog' = Append(sesLog,
                                [idx |-> sesI, called |-> TRUE, res |-> "nil"])
                /\ sesI' = sesI + 1
                /\ UNCHANGED sesErrors
           ELSE /\ sesLog' = Append(sesLog,
                                [idx |-> sesI, called |-> TRUE,
                                 res |-> "failed to send email"])
                /\ sesErrors' = Append(sesErrors, sesI)
                /\ sesI' = IndexAfterError(sesI, Len(sesConfigs))
    /\ sesPc' = "loop"
    /\ UNCHANGED <<sesConfigs, sesResult>>
    /\ UNCHANGED notSes

(* SendEmailBulk: if len(errors) > 0 { return fmt.Errorf(...) }; return nil *)
SesReturn ==
    /\ sesPc = "loop"
    /\ sesI >= Len(sesConfigs)
    /\ sesResult' = IF Len(sesErrors) > 0 THEN "error" ELSE "nil"
    /\ sesPc' = "done"
    /\ UNCHANGED <<sesConfigs, sesI, sesErrors, sesLog>>
    /\ UNCHANGED notSes

SesNext ==
    \/ SesValidate
    \/ SesService
    \/ SesReturn

SesSpec == SesInit /\ [][SesNext]_vars

---------------------------------------------------------------------------
(* Package http: MakeRequest(method, url, res, body, params, headers), and
   its copy in package bigcommerce, which differs in where it completes the
   headers: only for a request with a body, and before http.NewRequest.
   The arguments and the behaviour of the network are fixed at the call:
     pkg      the package whose MakeRequest is called;
     body     "nil", "json" (json.Marshal succeeds) or "unmarshalable";
     buildOk  http.NewRequest accepts the method and the URL;
     sendOk   client.Do returns a response (and no error);
     status   the status code of that response;
     readOk   io.ReadAll reads the whole response body;
     decode   what json.Unmarshal makes of the body: "ok", "syntax" (invalid
              JSON, rejected before *res is touched) or "type" (valid JSON
              that does not fit T: *res is filled as far as it fits);
     res0     the value of *res at the call;
     hdrNil   the headers argument is a nil map;
     headers  the contents of the headers map, as its key-value pairs. *)
StatusCodes == {100, 199, 200, 204, 299, 300, 404, 500}

HeaderMaps ==
    SUBSET {<<"Authorization", "Bearer token123">>,
            <<"Content-Type", "text/plain">>}

HttpInputs ==
    {in \in [pkg : {"http", "bigcommerce"},
             body : {"nil", "json", "unmarshalable"},
             buildOk : BOOLEAN,
             sendOk : BOOLEAN,
             status : StatusCodes,
             readOk : BOOLEAN,
             decode : {"ok", "syntax", "type"},
             res0 : {"zero", "old"},
             hdrNil : BOOLEAN,
             headers : HeaderMaps] :
        in.hdrNil => in.headers = {}}

(* _, exists := headers[k] and headers[k] = v on a map. *)
MapHas(m, k) == \E kv \in m : kv[1] = k
MapSet(m, k, v) == {kv \in m : kv[1] # k} \cup {<<k, v>>}

(* if headers == nil { headers = make(map[string]string) }
   if _, exists := headers["Content-Type"]; !exists {
       headers["Content-Type"] = "application/json" }
   What the caller's map holds afterwards: a nil map is replaced by a map
   of MakeRequest's own, any other map is the caller's and is written to. *)
EnsureContentType(isNil, m) ==
    IF isNil THEN m
    ELSE IF ~MapHas(m, "Content-Type")
           THEN MapSet(m, "Content-Type", "application/json")
    ELSE m

(* Package bigcommerce: the same two statements, inside `if body != nil`. *)
EnsureContentTypeIfBody(body, isNil, m) ==
    IF body # "nil" THEN EnsureContentType(isNil, m) ELSE m

(* if response.StatusCode < 200 || response.StatusCode >= 300 { return ... } *)
StatusOKUpTo300(code) == ~(code < 200 \/ code > 300)
StatusOK(code) == ~(code < 200 \/ code >= 300)

(* json.Unmarshal(responseBody, res): the value of *res afterwards. *)
Unmarshal(decode, old) ==
    IF decode = "ok" THEN "decoded"
    ELSE IF decode = "type" THEN "partial"
    ELSE old

HttpInit ==
    /\ httpIn \in HttpInputs
    /\ httpPc = "marshal"
    /\ httpRes = httpIn.res0
    /\ httpDecoded = FALSE
    /\ httpErr = "none"
    /\ httpHeaders = httpIn.headers
    /\ LimiterIdle
    /\ IvIdle
    /\ PairIdle
    /\ SesIdle
    /\ CsvIdle

(* if body != nil { jsonBody, err := json.Marshal(body) ... }; in package
   bigcommerce the headers are completed inside this if. *)
HttpMarshal ==
    /\ httpPc = "marshal"
    /\ IF httpIn.body = "unmarshalable"
         THEN /\ httpErr' = "Error Marshaling Request Body"
              /\ httpPc' = "done"
              /\ UNCHANGED httpHeaders
         ELSE /\ httpPc' = "build"
              /\ httpHeaders' =
                    IF httpIn.pkg = "bigcommerce"
                      THEN EnsureContentTypeIfBody(httpIn.body, httpIn.hdrNil,
                                                   httpHeaders)
                      ELSE httpHeaders
              /\ UNCHANGED httpErr
    /\ UNCHANGED <<httpIn, httpRes, httpDecoded>>
    /\ UNCHANGED notHttp

(* req, err := http.NewRequest(method, url, reqBody); the query parameters
   and the headers are then added to req; in package http the headers are
   completed here. *)
HttpNewRequest ==
    /\ httpPc = "build"
    /\ IF ~httpIn.buildOk
         THEN /\ httpErr' = "Error Building Request"
              /\ httpPc' = "done"
              /\ UNCHANGED httpHeaders
         ELSE /\ httpPc' = "do"
              /\ httpHeaders' =
                    IF httpIn.pkg = "http"
                      THEN EnsureContentType(httpIn.hdrNil, httpHeaders)
                      ELSE httpHeaders
              /\ UNCHANGED httpErr
    /\ UNCHANGED <<httpIn, httpRes, httpDecoded>>
    /\ UNCHANGED notHttp

(* response, err := client.Do(req) *)
HttpDo ==
    /\ httpPc = "do"
    /\ IF ~httpIn.sendOk
         THEN /\ httpErr' = "Error Making Request"
              /\ httpPc' = "done"
         ELSE /\ httpPc' = "status"
              /\ UNCHANGED httpErr
    /\ UNCHANGED <<httpIn, httpRes, httpDecoded, httpHeaders>>
    /\ UNCHANGED notHttp

(* The test of response.StatusCode. *)
HttpStatus ==
    /\ httpPc = "status"
    /\ IF ~StatusOK(httpIn.status)
         THEN /\ httpErr' = "HTTP Error"
              /\ httpPc' = "done"
         ELSE /\ httpPc' = "read"
              /\ UNCHANGED httpErr
    /\ UNCHANGED <<httpIn, httpRes, httpDecoded, httpHeaders>>
    /\ UNCHANGED notHttp

(* responseBody, err := io.ReadAll(response.Body) *)
HttpRead ==
    /\ httpPc = "read"
    /\ IF ~httpIn.readOk
         THEN /\ httpErr' = "Error Reading Response Body"
              /\ httpPc' = "done"
         ELSE /\ httpPc' = "unmarshal"
              /\ UNCHANGED httpErr
    /\ UNCHANGED <<httpIn, httpRes, httpDecoded, httpHeaders>>
    /\ UNCHANGED notHttp

(* if err = json.Unmarshal(responseBody, res); err != nil {...}; return nil *)
HttpUnmarshal ==
    /\ httpPc = "unmarshal"
    /\ httpDecoded' = TRUE
    /\ httpRes' = Unmarshal(httpIn.decode, httpRes)
    /\ httpErr' = IF httpIn.decode = "ok" THEN "nil"
                  ELSE "Error Unmarshaling Response"
    /\ httpPc' = "done"
    /\ UNCHANGED <<httpIn, httpHeaders>>
    /\ UNCHANGED notHttp

HttpNext ==
    \/ HttpMarshal
    \/ HttpNewRequest
    \/ HttpDo
    \/ HttpStatus
    \/ HttpRead
    \/ HttpUnmarshal

HttpSpec == HttpInit /\ [][HttpNext]_vars

---------------------------------------------------------------------------
(* Package csv: ReadCSV(fileName, result).  Of the file the model keeps
   whether it opens, whether its header line is read, and for every data
   row whether processRow parses it ("ok") or reports an error ("bad");
   of the type argument T whether it is a struct type: mapToStruct calls
   rv.NumField(), which panics on a value of any other kind.  A goroutine
   that panics runs its deferred calls and stops; the runtime then ends the
   process, and until it has done so the other goroutines go on running.
   The two channels have ChanCap slots here where the source gives them 100:
   MaxRows is larger than ChanCap, so that the reader and the workers meet
   full channels. *)
RowKinds == {"ok", "bad"}

CsvInputs ==
    {in \in [openOk : BOOLEAN, headerOk : BOOLEAN,
             rows : UNION {[1..n -> RowKinds] : n \in 0..MaxRows},
             cpus : 1..MaxCPU,
             tStruct : BOOLEAN] :
        \* no rows are looked at in a file that gave no header
        (~in.openOk \/ ~in.headerOk) => in.rows = <<>>}

(* numWorkers := runtime.NumCPU() * 2 *)
NumWorkers(cpus) == cpus * 2

Workers == 1..NumWorkers(csvIn.cpus)

(* processRow: result.err is set when mapToStruct fails. *)
ProcessRow(r) == [row |-> r, ok |-> csvIn.rows[r] = "ok"]

(* mapToStruct: rv := reflect.ValueOf(v).Elem(); rv.NumField() *)
NumFieldPanics(isStruct) == ~isStruct

(* wg.Wait() returns when the counter is zero. *)
WgWaitOk(n) == n = 0

(* if len(errors) > 0 *)
HasErrors(n) == n > 0

CsvInit ==
    /\ csvIn \in CsvInputs
    /\ csvPc = "open"
    /\ rowChan = <<>>
    /\ rowClosed = 0
    /\ resultChan = <<>>
    /\ resClosed = 0
    /\ wg = 0
    /\ rdNext = 0
    /\ rdPc = "none"
    /\ wkPc = [w \in Workers |-> "none"]
    /\ wkRow = [w \in Workers |-> 0]
    /\ clPc = "none"
    /\ csvResults = <<>>
    /\ csvErrors = 0
    /\ csvRet = "none"
    /\ csvProcessed = [r \in 1..Len(csvIn.rows) |-> 0]
    /\ csvPanic = FALSE
    /\ csvExited = FALSE
    /\ fileClosed = FALSE
    /\ LimiterIdle
    /\ IvIdle
    /\ PairIdle
    /\ SesIdle
    /\ HttpIdle

(* ReadCSV up to the collecting loop: os.Open, the header, the channels,
   wg.Add(numWorkers) and the three kinds of goroutines. *)
CsvStart ==
    /\ ~csvExited
    /\ csvPc = "open"
    /\ IF ~csvIn.openOk
         THEN /\ csvRet' = "Error Opening File"
              /\ csvPc' = "done"
              /\ UNCHANGED <<wg, rdPc, wkPc, clPc, fileClosed>>
         ELSE IF ~csvIn.headerOk
         THEN \* the return runs the deferred file.Close()
              /\ csvRet' = "Error Reading Header"
              /\ csvPc' = "done"
              /\ fileClosed' = TRUE
              /\ UNCHANGED <<wg, rdPc, wkPc, clPc>>
         ELSE /\ wg' = NumWorkers(csvIn.cpus)
              /\ wkPc' = [w \in Workers |-> "recv"]
              /\ rdPc' = "read"
              /\ clPc' = "wait"
              /\ csvPc' = "collect"
              /\ UNCHANGED <<csvRet, fileClosed>>
    /\ UNCHANGED <<csvIn, rowChan, rowClosed, resultChan, resClosed, rdNext,
                   wkRow, csvResults, csvErrors, csvProcessed, csvPanic>>
    /\ UNCHANGED csvExited
    /\ UNCHANGED notCsv

(* reader.Read(): what it can return with `left` rows not yet read.  At
   the end of the file it returns an error (io.EOF).  On a file that
   ReadCSV's deferred file.Close() has closed it returns the next row if
   the reader's buffer still holds it, and the error of the closed file if
   not. *)
ReadOutcomes(closed, left) ==
    IF left = 0 THEN {"err"}
    ELSE IF closed THEN {"row", "err"}
    ELSE {"row"}

(* Reader goroutine: record, err := reader.Read(); if err != nil { break } *)
ReaderRead ==
    /\ ~csvExited
    /\ rdPc = "read"
    /\ \E out \in ReadOutcomes(fileClosed, Len(csvIn.rows) - rdNext) :
         IF out = "row"
           THEN /\ rdNext' = rdNext + 1
                /\ rdPc' = "send"
           ELSE /\ rdPc' = "close"
                /\ UNCHANGED rdNext
    /\ UNCHANGED <<csvIn, csvPc, rowChan, rowClosed, resultChan, resClosed,
                   wg, wkPc, wkRow, clPc, csvResults, csvErrors, csvRet,
                   csvProcessed, csvPanic>>
    /\ UNCHANGED <<csvExited, fileClosed>>
    /\ UNCHANGED notCsv

(* Reader goroutine: rowChan <- record *)
ReaderSend ==
    /\ ~csvExited
    /\ rdPc = "send"
    /\ Len(rowChan) < ChanCap
    /\ rowChan' = Append(rowChan, rdNext)
    /\ rdPc' = "read"
    /\ UNCHANGED <<csvIn, csvPc, rowClosed, resultChan, resClosed, wg, rdNext,
                   wkPc, wkRow, clPc, csvResults, csvErrors, csvRet,
                   csvProcessed, csvPanic>>
    /\ UNCHANGED <<csvExited, fileClosed>>
    /\ UNCHANGED notCsv

(* Reader goroutine: close(rowChan) *)
ReaderClose ==
    /\ ~csvExited
    /\ rdPc = "close"
    /\ rowClosed' = rowClosed + 1
    /\ csvPanic' = (csvPanic \/ rowClosed > 0)
    /\ rdPc' = "exit"
    /\ UNCHANGED <<csvIn, csvPc, rowChan, resultChan, resClosed, wg, rdNext,
                   wkPc, wkRow, clPc, csvResults, csvErrors, csvRet,
                   csvProcessed>>
    /\ UNCHANGED <<csvExited, fileClosed>>
    /\ UNCHANGED notCsv

(* Worker: for record := range rowChan { res := processRow(record, headers) *)
WorkerRecv(w) ==
    /\ ~csvExited
    /\ wkPc[w] = "recv"
    /\ rowChan # <<>>
    /\ rowChan' = Tail(rowChan)
    /\ wkRow' = [wkRow EXCEPT ![w] = Head(rowChan)]
    /\ IF NumFieldPanics(csvIn.tStruct)
         THEN \* the panic unwinds the worker through its deferred wg.Done()
              /\ csvPanic' = TRUE
              /\ wg' = wg - 1
              /\ wkPc' = [wkPc EXCEPT ![w] = "panicked"]
              /\ UNCHANGED csvProcessed
         ELSE /\ csvProcessed' = [csvProcessed EXCEPT ![Head(rowChan)] = @ + 1]
              /\ wkPc' = [wkPc EXCEPT ![w] = "send"]
              /\ UNCHANGED <<csvPanic, wg>>
    /\ UNCHANGED <<csvIn, csvPc, rowClosed, resultChan, resClosed, rdNext,
                   rdPc, clPc, csvResults, csvErrors, csvRet>>
    /\ UNCHANGED <<csvExited, fileClosed>>
    /\ UNCHANGED notCsv

(* Worker: resultChan <- res *)
WorkerSend(w) ==
    /\ ~csvExited
    /\ wkPc[w] = "send"
    /\ IF resClosed > 0
         THEN \* a send on a closed channel panics; the deferred wg.Done()
              /\ csvPanic' = TRUE
              /\ wg' = wg - 1
              /\ wkPc' = [wkPc EXCEPT ![w] = "panicked"]
              /\ UNCHANGED <<resultChan, wkRow>>
         ELSE /\ Len(resultChan) < ChanCap
              /\ resultChan' = Append(resultChan, ProcessRow(wkRow[w]))
              /\ wkRow' = [wkRow EXCEPT ![w] = 0]
              /\ wkPc' = [wkPc EXCEPT ![w] = "recv"]
              /\ UNCHANGED <<csvPanic, wg>>
    /\ UNCHANGED <<csvIn, csvPc, rowChan, rowClosed, resClosed, rdNext,
                   rdPc, clPc, csvResults, csvErrors, csvRet, csvProcessed>>
    /\ UNCHANGED <<csvExited, fileClosed>>
    /\ UNCHANGED notCsv

(* Worker: the range loop ends on the closed and drained rowChan; the
   deferred wg.Done() *)
WorkerExit(w) ==
    /\ ~csvExited
    /\ wkPc[w] = "recv"
    /\ rowChan = <<>>
    /\ rowClosed > 0
    /\ wg' = wg - 1
    /\ wkPc' = [wkPc EXCEPT ![w] = "exit"]
    /\ UNCHANGED <<csvIn, csvPc, rowChan, rowClosed, resultChan, resClosed,
                   rdNext, rdPc, wkRow, clPc, csvResults, csvErrors, csvRet,
                   csvProcessed, csvPanic>>
    /\ UNCHANGED <<csvExited, fileClosed>>
    /\ UNCHANGED notCsv

(* Collector goroutine: wg.Wait() *)
CloserWait ==
    /\ ~csvExited
    /\ clPc = "wait"
    /\ WgWaitOk(wg)
    /\ clPc' = "close"
    /\ UNCHANGED <<csvIn, csvPc, rowChan, rowClosed, resultChan, resClosed,
                   wg, rdNext, rdPc, wkPc, wkRow, csvResults, csvErrors,
                   csvRet, csvProcessed, csvPanic>>
    /\ UNCHANGED <<csvExited, fileClosed>>
    /\ UNCHANGED notCsv

(* Collector goroutine: close(resultChan) *)
CloserClose ==
    /\ ~csvExited
    /\ clPc = "close"
    /\ resClosed' = resClosed + 1
    /\ csvPanic' = (csvPanic \/ resClosed > 0)
    /\ clPc' = "exit"
    /\ UNCHANGED <<csvIn, csvPc, rowChan, rowClosed, resultChan, wg, rdNext,
                   rdPc, wkPc, wkRow, csvResults, csvErrors, csvRet,
                   csvProcessed>>
    /\ UNCHANGED <<csvExited, fileClosed>>
    /\ UNCHANGED notCsv

(* ReadCSV: for res := range resultChan { ... }, one iteration *)
Collect ==
    /\ ~csvExited
    /\ csvPc = "collect"
    /\ resultChan # <<>>
    /\ resultChan' = Tail(resultChan)
    /\ IF Head(resultChan).ok
         THEN /\ csvResults' = Append(csvResults, Head(resultChan).row)
              /\ UNCHANGED csvErrors
         ELSE /\ csvErrors' = csvErrors + 1
              /\ UNCHANGED csvResults
    /\ UNCHANGED <<csvIn, csvPc, rowChan, rowClosed, resClosed, wg, rdNext,
                   rdPc, wkPc, wkRow, clPc, csvRet, csvProcessed, csvPanic>>
    /\ UNCHANGED <<csvExited, fileClosed>>
    /\ UNCHANGED notCsv

(* ReadCSV: the loop ends on the closed and drained resultChan; the two
   return statements, and the deferred file.Close() *)
CsvReturn ==
    /\ ~csvExited
    /\ csvPc = "collect"
    /\ resultChan = <<>>
    /\ resClosed > 0
    /\ csvRet' = IF HasErrors(csvErrors) THEN "errors during parsing" ELSE "nil"
    /\ csvPc' = "done"
    /\ fileClosed' = TRUE
    /\ UNCHANGED <<csvIn, rowChan, rowClosed, resultChan, resClosed, wg,
                   rdNext, rdPc, wkPc, wkRow, clPc, csvResults, csvErrors,
                   csvProcessed, csvPanic>>
    /\ UNCHANGED csvExited
    /\ UNCHANGED notCsv

(* The runtime, after a panic that nothing recovers: the process exits
   and every goroutine stops where it is. *)
CsvAbort ==
    /\ csvPanic
    /\ ~csvExited
    /\ csvExited' = TRUE
    /\ UNCHANGED fileClosed
    /\ UNCHANGED <<csvIn, csvPc, rowChan, rowClosed, resultChan, resClosed,
                   wg, rdNext, rdPc, wkPc, wkRow, clPc, csvResults, csvErrors,
                   csvRet, csvProcessed, csvPanic>>
    /\ UNCHANGED notCsv

WorkerTake == \E w \in Workers : WorkerRecv(w)
WorkerPut == \E w \in Workers : WorkerSend(w)
WorkerDone == \E w \in Workers : WorkerExit(w)

CsvNext ==
    \/ CsvStart
    \/ ReaderRead
    \/ ReaderSend
    \/ ReaderClose
    \/ WorkerTake
    \/ WorkerPut
    \/ WorkerDone
    \/ CloserWait
    \/ CloserClose
    \/ Collect
    \/ CsvReturn
    \/ CsvAbort

CsvSpec == CsvInit /\ [][CsvNext]_vars

(* The Go scheduler runs a goroutine that can take a step. *)
CsvLiveSpec == CsvSpec /\ WF_vars(CsvNext)

---------------------------------------------------------------------------
(* The scheduling the Go runtime gives.  The timer keeps firing and a
   runnable goroutine eventually runs (weak fairness of the steps that wait
   for nothing).  A goroutine waiting for the mutex or for a value of the
   channel is served when the mutex is released, or a value sent, again and
   again (strong fairness): sync.Mutex hands the lock to a starving waiter
   and receivers blocked on a channel are queued.  The fairness of the
   callers is stated for the callers as a group, which is weaker than
   stating it for each caller. *)
RefillStep ==
    RefillTick \/ RefillCheck \/ RefillSend \/ RefillInc \/ RefillUnlock

Fairness ==
    /\ WF_vars(TimerFire)
    /\ WF_vars(RefillStep)
    /\ SF_vars(RefillLock)
    /\ SF_vars(Recv)
    /\ SF_vars(Lock)
    /\ WF_vars(Decrement \/ Unlock)

LiveSpec == InitLive /\ [][Next]_vars /\ Fairness

TypeOK ==
    /\ maxTokens \in 1..MaxRate
    /\ tokens \in 0..maxTokens
    /\ tokenCount \in Int
    /\ mu \in BOOLEAN
    /\ tickC \in 0..1
    /\ pcR \in {"tick", "lock", "check", "send", "inc", "unlock"}
    /\ pcW \in [Callers -> {"idle", "recv", "lock", "dec", "unlock"}]

---------------------------------------------------------------------------
(* C1: in every reachable state the permit counter stays within
   0 <= tokenCount <= maxTokens. *)
CounterInRange == 0 <= tokenCount /\ tokenCount <= maxTokens

(* The counter has been at 0 with a caller blocked, and a tick has fired. *)
CounterInRangeWitness ==
    tokenCount = 0 /\ AtRecv # {} /\ refills >= 1 /\ pcR = "check"

(* C2: permits are conserved: the Wait() calls that obtained a permit plus
   the permits in the bucket equal the initial permits plus the successful
   replenishments. *)
PermitsConserved == ReceivedCount + tokens = maxTokens + refills

(* A replenished permit has been handed to a caller beyond the initial
   burst. *)
PermitsConservedWitness == refills >= 1 /\ ReceivedCount > maxTokens

(* C3: the Wait() calls that have returned never exceed the capacity plus
   the ticks fired so far. *)
ReturnsBoundedByTicks == returned <= maxTokens + fired

(* The bound is met with equality after a tick. *)
ReturnsBoundedByTicksWitness == fired >= 1 /\ returned = maxTokens + fired

(* C4: Wait() takes a permit atomically: whenever the replenisher reads the
   counter under the mutex, the counter equals the number of permits in the
   bucket (no permit is taken and not yet counted). *)
WaitTakesAtomically == pcR = "check" => tokenCount = tokens

(* C5: with the replenisher ticking forever and fair scheduling, every
   Wait() call eventually returns. *)
WaitEventuallyReturns ==
    \A p \in Callers : (pcW[p] # "idle") ~> (pcW[p] = "idle")

(* More calls have returned than the bucket held initially: a caller that
   had to wait for a replenishment has returned. *)
WaitEventuallyReturnsWitness == returned > maxTokens /\ refills >= 1

(* C6: a tick is discarded only when the bucket holds maxTokens permits: on
   a tick at which the bucket holds fewer, the replenisher goes on to add
   one. *)
TickDiscardedOnlyWhenFull ==
    [][(pcR = "check" /\ pcR' = "unlock") => tokens = maxTokens]_vars

(* C7: one tick adds at most one permit and the bucket never holds more
   than maxTokens permits; dropped ticks are not made up for. *)
OnePermitPerTick ==
    /\ added <= 1
    /\ tokens <= maxTokens
    /\ refills <= taken

(* A tick adds its one permit after an earlier tick was dropped on a full
   bucket. *)
OnePermitPerTickWitness ==
    added = 1 /\ taken >= 2 /\ refills = 1 /\ pcR = "unlock"

(* C8: initial burst: while no more than maxTokens calls have been issued no
   caller is blocked on the channel, whatever the ticker does; and without a
   successful replenishment at most maxTokens calls return. *)
InitialBurst ==
    /\ IssuedCount <= maxTokens => Cardinality(AtRecv) <= tokens
    /\ refills = 0 => returned <= maxTokens

(* maxTokens calls have returned and the timer has not fired once. *)
InitialBurstWitness == returned = maxTokens /\ fired = 0 /\ refills = 0

(* C9: a tick that fires while a caller is blocked on the bucket emptied of
   its initial permits releases that caller: no such tick is processed
   without a permit ever having been added. *)
FirstTickReleases == refills = 0 => wasted = 0

(* C10: under sustained demand no tick is wasted: of k ticks that fired
   while a caller was blocked on an empty bucket, at least k - 1 added a
   permit. *)
NoTickWastedUnderDemand == wasted <= 1

(* C14: the limiter can be shut down: once its owner has ended its use, no
   further permit is added to the bucket. *)
NoPermitAfterShutdown == [][released => refills' = refills]_vars

(* C19: every update of the counter is made while holding the mutex: at
   most one actor is inside a critical section, it holds the mutex, the
   counter changes only by the step of the actor inside, and between the
   replenisher's check and its increment nobody else changes the counter. *)
CounterUnderMutex ==
    /\ [](/\ Cardinality(CallersInCS)
               + (IF pcR \in RefillCS THEN 1 ELSE 0) <= 1
          /\ (CallersInCS # {} \/ pcR \in RefillCS) => mu)
    /\ [][/\ tokenCount' # tokenCount =>
                mu /\ (pcR = "inc" \/ \E p \in Callers : pcW[p] = "dec")
          /\ (pcR \in {"send", "inc"} /\ tokenCount' # tokenCount) =>
                pcR = "inc" /\ pcR' # "inc"]_vars

(* A caller is inside its critical section while the replenisher and
   another caller both wait for the mutex. *)
CounterUnderMutexWitness ==
    /\ pcR = "lock"
    /\ \E p, q \in Callers : pcW[p] = "dec" /\ pcW[q] = "lock"

(* C20 as stated: the replenisher is never suspended waiting for the mutex
   while a tick is pending. *)
ReplenisherNeverWaitsForMutex == ~(pcR = "lock" /\ mu /\ tickC = 1)

(* C20 amended: the replenisher never waits for the bucket, since every step
   of its critical section, the hand-off included, can be taken at once;
   besides its timer it waits only for the mutex, and only while a caller is
   inside the critical section of Wait, whose steps wait for nothing. *)
ReplenisherWaitsOnlyForMutex ==
    /\ pcR \in RefillCS => ENABLED RefillStep
    /\ (pcR = "lock" /\ ~ENABLED RefillLock) =>
          /\ CallersInCS # {}
          /\ \A p \in CallersInCS : ENABLED (WaitDec(p) \/ WaitUnlock(p))

(* The replenisher waits for the mutex, held by a caller, with the next
   tick already buffered. *)
ReplenisherWaitsOnlyForMutexWitness ==
    pcR = "lock" /\ mu /\ tickC = 1 /\ CallersInCS # {}

(* C12: for a positive rate the constructor never panics and never blocks
   in its fill loop, and when it is about to return the capacity is the
   rate, the bucket holds exactly that many permits, the counter equals it,
   and exactly one replenishment process has been started. *)
ConstructedFull ==
    /\ rpsArg > 0 => pcC # "panic"
    /\ (pcC = "fill" /\ fillI < InitTokens(maxTokens)) =>
          ChanSendOk(tokens, maxTokens)
    /\ pcC \in {"alloc", "fill", "go"} => started = 0
    /\ pcC \in {"return", "done"} => started = 1
    /\ pcC = "return" =>
          /\ maxTokens = rpsArg
          /\ tokens = rpsArg
          /\ tokenCount = rpsArg

(* The constructor is about to return a limiter of rate 2 whose
   replenisher has already taken the mutex. *)
ConstructedFullWitness ==
    pcC = "return" /\ rpsArg = 2 /\ tokens = 2 /\ pcR = "check"

(* C13: construction with a non-positive rate ends by returning a
   configuration error, no replenishment process having been started. *)
NonPositiveRateRejected ==
    (rpsArg <= 0 /\ pcC \in {"done", "panic", "error"}) =>
        pcC = "error" /\ started = 0

(* C11: for every positive rate the refill interval is strictly positive
   and at most `rate` ticks fall in any window of one second. *)
IntervalCapsRate ==
    /\ ivPc \in {"ticker", "window", "count", "panic"} => ivInterval > 0
    /\ ivTicks <= ivRate

(* C15: two limiters built with the same rate are independent: a step of
   Wait or of the replenisher on one limiter leaves the other limiter's
   struct (counter, mutex) and bucket unchanged, and a caller of a limiter
   that holds a permit of its own is never blocked on the channel, however
   exhausted the other limiter is. *)
LimitersIndependent ==
    /\ [](\A p \in Callers :
            (pw[p] = "recv" /\ lim[LimOf(p)].held > 0) =>
                ChanRecvOk(Bucket(LimOf(p))))
    /\ [][\A i \in Lims :
            (lim'[i] # lim[i]
               \/ \E p \in Callers : LimOf(p) = i /\ pw'[p] # pw[p]) =>
                \A j \in Lims \ {i} :
                    lim'[j] = lim[j] /\ Bucket(j)' = Bucket(j)]_vars

(* Limiter 1 is exhausted, with a caller blocked on it, while a
   caller of limiter 2 has just taken a permit and another one is left. *)
LimitersIndependentWitness ==
    /\ lim[1].maxTokens = 2
    /\ Bucket(1) = 0 /\ lim[1].tokenCount = 0
    /\ \E p \in Callers : LimOf(p) = 1 /\ pw[p] = "recv"
    /\ Bucket(2) = 1
    /\ \E p \in Callers : LimOf(p) = 2 /\ pw[p] = "lock"

(* C16: SendEmailBulk attempts every config once, in slice order, also
   after a failure; it returns nil exactly when every send succeeded, and
   otherwise one error that counts the failures and names the index of each
   failed config. *)
BulkAttemptsAll ==
    sesPc = "done" =>
        /\ Len(sesLog) = Len(sesConfigs)
        /\ \A k \in 1..Len(sesLog) : sesLog[k].idx = k - 1
        /\ sesResult = "nil" <=> \A k \in 1..Len(sesLog) : sesLog[k].res = "nil"
        /\ sesResult \in {"nil", "error"}
        /\ sesResult = "error" =>
              /\ Len(sesErrors) =
                    Cardinality({k \in 1..Len(sesLog) : sesLog[k].res # "nil"})
              /\ \A k \in 1..Len(sesLog) :
                    sesLog[k].res # "nil" <=>
                        \E e \in 1..Len(sesErrors) : sesErrors[e] = k - 1

(* Two configs: the first is rejected by the validation, the second is sent
   all the same, and the combined error names index 0 alone. *)
BulkAttemptsAllWitness ==
    /\ sesPc = "done"
    /\ Len(sesConfigs) = 2
    /\ sesLog[1].res = "subject is required"
    /\ sesLog[2].called /\ sesLog[2].res = "nil"
    /\ sesResult = "error"
    /\ sesErrors = <<0>>

(* C17: SendEmail returns a validation error, without calling the service,
   for a config with no recipients, an empty sender, an empty subject or
   both bodies empty; the service is called only for a config that passes
   all four tests. *)
SendEmailValidates ==
    LET Invalid(cfg) ==
            \/ cfg.rcpts = 0
            \/ cfg.sender = 0
            \/ cfg.subject = 0
            \/ (cfg.html = 0 /\ cfg.text = 0)
    IN  /\ sesPc = "svc" => ~Invalid(sesConfigs[sesI + 1])
        /\ \A k \in 1..Len(sesLog) :
              LET cfg == sesConfigs[sesLog[k].idx + 1] IN
                /\ Invalid(cfg) =>
                      /\ ~sesLog[k].called
                      /\ sesLog[k].res \in
                            {"no recipients specified",
                             "sender email is required",
                             "subject is required",
                             "either HTML body or text body is required"}
                /\ sesLog[k].called => ~Invalid(cfg)

(* A config with both bodies empty has been rejected, and one with a text
   body only is at the call of the service. *)
SendEmailValidatesWitness ==
    /\ Len(sesLog) = 1
    /\ sesLog[1].res = "either HTML body or text body is required"
    /\ ~sesLog[1].called
    /\ sesPc = "svc"
    /\ sesConfigs[2].html = 0

(* C18: MakeRequest returns a non-nil error whenever building or sending
   the request fails, the status code is outside 200..299, or the body
   cannot be read or decoded; on a status outside 200..299 the body is not
   decoded and *res is left as it was; nil is returned only after a 2xx
   response was decoded into *res. *)
MakeRequestErrors ==
    httpPc = "done" =>
        LET code == httpIn.status
            Failure ==
                \/ httpIn.body = "unmarshalable"
                \/ ~httpIn.buildOk
                \/ ~httpIn.sendOk
                \/ code \notin 200..299
                \/ ~httpIn.readOk
                \/ httpIn.decode # "ok"
        IN  /\ Failure => httpErr \notin {"nil", "none"}
            /\ (httpErr = "HTTP Error" \/ code \notin 200..299)
                  => /\ ~httpDecoded
                     /\ httpRes = httpIn.res0
            /\ httpErr = "nil" =>
                  /\ code \in 200..299
                  /\ httpDecoded
                  /\ httpRes = "decoded"

(* A request that was built and sent, answered 404 with a body that would
   have decoded: the error is returned and *res keeps its old value. *)
MakeRequestErrorsWitness ==
    /\ httpPc = "done"
    /\ httpIn.body = "json" /\ httpIn.buildOk
    /\ httpIn.sendOk /\ httpIn.status = 404
    /\ httpIn.readOk /\ httpIn.decode = "ok"
    /\ httpErr = "HTTP Error"
    /\ httpRes = "old"
    /\ ~httpDecoded

(* C21: the counter and the channel stay consistent: whenever the mutex
   is free, tokenCount is the number of tokens in the channel plus the
   number of callers of Wait that have received a token and not yet
   decremented the counter; so with the mutex free and no Wait in progress
   tokenCount is the occupancy of the channel. *)
CounterMatchesChannel ==
    ~mu =>
        /\ tokenCount =
              tokens + Cardinality({p \in Callers : pcW[p] \in {"lock", "dec"}})
        /\ (\A p \in Callers : pcW[p] = "idle") => tokenCount = tokens

(* The mutex is free, the channel is empty, and two callers have each
   received a token that the counter still counts. *)
CounterMatchesChannelWitness ==
    /\ ~mu
    /\ tokens = 0
    /\ tokenCount = 2
    /\ Cardinality({p \in Callers : pcW[p] = "lock"}) = 2
    /\ refills > 0

(* C22: in the replenisher, when tokenCount < maxTokens holds under the
   mutex the channel has a free slot: the send of the select succeeds and
   its default branch is never taken. *)
RefillSendNeverFull ==
    /\ (pcR = "check" /\ tokenCount < maxTokens) => tokens < maxTokens
    /\ pcR = "send" => tokens < maxTokens

(* The replenisher is at the select with one free slot left, while a
   caller has received a token that the counter still counts. *)
RefillSendNeverFullWitness ==
    /\ pcR = "send"
    /\ mu
    /\ maxTokens = 2
    /\ tokens = 0
    /\ tokenCount = 1
    /\ \E p \in Callers : pcW[p] = "lock"

(* C23: ReadCSV terminates for every number of data rows (none, fewer
   and more than the channels buffer) and of workers: the reader, every
   worker and the closing goroutine exit, rowChan and resultChan are each
   closed exactly once, and no worker sends on the closed resultChan. *)
ReadCSVTerminates ==
    /\ [](rowClosed <= 1 /\ resClosed <= 1 /\ ~csvPanic)
    /\ <>(/\ csvPc = "done"
          /\ (csvIn.openOk /\ csvIn.headerOk) =>
                /\ rdPc = "exit"
                /\ \A w \in Workers : wkPc[w] = "exit"
                /\ clPc = "exit"
                /\ rowClosed = 1
                /\ resClosed = 1)

(* C24: ReadCSV processes every data row once, by one worker: the records
   returned and the row errors counted in the returned error add up to the
   number of data rows, and the error is non-nil exactly when some row
   failed to parse.  (For a file that was opened and whose header was
   read.) *)
EveryRowOnce ==
    /\ csvPc # "idle" => \A r \in 1..Len(csvIn.rows) : csvProcessed[r] <= 1
    /\ (csvPc = "done" /\ csvIn.openOk /\ csvIn.headerOk) =>
          /\ \A r \in 1..Len(csvIn.rows) : csvProcessed[r] = 1
          /\ Len(csvResults) + csvErrors = Len(csvIn.rows)
          /\ csvRet # "nil" <=>
                \E r \in 1..Len(csvIn.rows) : csvIn.rows[r] = "bad"

(* C25: ReadCSV returns the records in the order of their rows in the
   file, whatever the scheduling of the workers. *)
RecordsInFileOrder ==
    csvPc = "done" =>
        \A i, j \in 1..Len(csvResults) :
            i < j => csvResults[i] < csvResults[j]

(* C26: MakeRequest leaves the caller's headers map unchanged: after the
   call it holds the keys and values it held before, whether the call
   succeeded or failed. *)
HeadersArgumentUnchanged ==
    httpPc = "done" => httpHeaders = httpIn.headers

=============================================================================
